---- MODULE Spec2Model ----
(***************************************************************************)
(* Model of rbrugo/gravity: the physics step (update), the scheduler       *)
(* (simulation), the render/input loop (render_cycle, io_events,           *)
(* update_trail, draw_graphics), the camera window                         *)
(* (draw_camera_settings), the configuration loader (load_data,            *)
(* build_registry, extract_object) and the shared context (world lock,     *)
(* status flag, camera fields).                                            *)
(*                                                                         *)
(* Quantities.  The program computes with double precision quantities.     *)
(* Here every quantity is an integer; a quotient is truncated toward zero  *)
(* (Quot).  Bodies are placed on the x axis with velocities along the x    *)
(* axis (a configuration the loader accepts), so a position or velocity    *)
(* of a body is its x component, unit(d) is the sign of d and d*d is the   *)
(* square.  Masses are expressed in the unit in which G = 1.               *)
(* Time is counted in ticks: DayTicks ticks are the 24 h of the            *)
(* accumulator and DtTicks ticks are the 10 min maximal sub-step.          *)
(***************************************************************************)
EXTENDS Integers, Sequences, FiniteSets, TLC

\* ------------------------------------------------------------------ bounds
NBodies == 2
MaxDays == 2
DayTicks == 2
DtTicks == 2
TrailCap == 1
MaxInputs == 1
MaxBatch == 2
MaxDpm == 5
MaxClicks == 3
MaxDefects == 1
MaxKeys == 2
MaxTrail == 3
MaxFps == 25

\* --------------------------------------------------------------- constants
first_day == 1
last_day == first_day + MaxDays

\* the entities of the configured system (entt entities)
Entities == 1 .. NBodies

\* ----------------------------------------------------------------- helpers
Abs[x \in Int] == IF x < 0 THEN -x ELSE x
Sgn[x \in Int] == IF x < 0 THEN -1 ELSE IF x = 0 THEN 0 ELSE 1
Max(a, b) == IF a < b THEN b ELSE a
Min(a, b) == IF a < b THEN a ELSE b

\* the value a floating point division by zero propagates
NaN == -1000000

\* quotient truncated toward zero
Quot[a \in Int, b \in Int] == Sgn[a] * Sgn[b] * (Abs[a] \div Abs[b])

NAdd[a \in Int, b \in Int] == IF a = NaN \/ b = NaN THEN NaN ELSE a + b
NMul[a \in Int, b \in Int] == IF a = NaN \/ b = NaN THEN NaN ELSE a * b
NQuot[a \in Int, b \in Int] == IF a = NaN \/ b = NaN \/ b = 0 THEN NaN ELSE Quot[a, b]

\* ------------------------------------------------------------------- world
\* extract_object gives every body a tag, a position, a velocity and a mass
InitMass == [b \in Entities |-> 64]
InitPos == [b \in Entities |-> 8 * (b - 1)]
InitVel == [b \in Entities |-> IF b = 1 THEN 2 ELSE -2]
\* the bodies configured with motion_trail_length * motion_trail_density > 0
HasTrail == {b \in Entities : b = 1}
InitTrail == [b \in HasTrail |-> [k \in 1 .. TrailCap |-> InitPos[b]]]

\* ------------------------------------------------------------------- state
VARIABLES
    \* struct context
    status,              \* std::atomic<brun::status>
    lockX,               \* ctx_mtx: the task holding it exclusively, or "none"
    lockS,               \* ctx_mtx: the tasks holding it shared
    pos, vel, mass, trail,   \* registry components, each a function of the entities having it
    view_radius, rotation, follow, min_max_view_radius,
    \* what main is given and makes before the threads exist: the command
    \* line (parse_cli), the file (load_data) and the argument of the
    \* loader's std::exit (0: none)
    days_per_millisecond, fps, config, exit_code,
    \* main
    mpc,
    \* simulation task: simulation() and update()
    spc, day, accumulator, step,
    wpc, wloc, updated, ci,
    dumps,               \* the day labels brun::dump printed
    \* render task: render_cycle() and its callees
    rpc, count, batch, current_target, shown,
    \* environment: user inputs still to come, the keys this user presses
    inputs, keyboard,
    \* history: positions and velocities at the start of the running update, the positions
    \* each acceleration evaluation read, the last writer of each component,
    \* the update calls begun since status became stopped, the simulated time
    \* of the completed updates (in the unit of the accumulator), the
    \* rotation keys io_events has read so far
    preStep, obs, lastWriter, sinceStop, elapsed, pressed,
    \* history: what the widgets of draw_camera_settings reported in the frame
    \* and the policy they replaced
    widgets

simVars == <<spc, day, accumulator, step, wpc, wloc, updated, ci, dumps, preStep, obs,
            sinceStop, elapsed>>
renderVars == <<rpc, count, batch, current_target, shown, inputs, pressed, widgets>>
camVars == <<view_radius, rotation, follow, min_max_view_radius>>
paramVars == <<days_per_millisecond, fps, config, exit_code, mass, keyboard>>
lockVars == <<lockX, lockS>>
vars == <<status, lockX, lockS, pos, vel, mass, trail, view_radius, rotation, follow,
          min_max_view_radius, days_per_millisecond, fps, config, exit_code, mpc, spc, day,
          accumulator, step, wpc, wloc, updated, ci, dumps, rpc, count, batch,
          current_target, shown, inputs, keyboard, preStep, obs, lastWriter, sinceStop,
          elapsed, pressed, widgets>>

\* reg.view<position>(), reg.group<position, velocity, mass>() and
\* reg.group<position, mass>()
Bodies == DOMAIN pos
Movables == DOMAIN pos \cap DOMAIN vel \cap DOMAIN mass
Massives == DOMAIN pos \cap DOMAIN mass

\* ----------------------------------------------------------------- physics
RECURSIVE SumField(_, _, _, _)
SumField(p, target, position, others) ==
    IF others = {} THEN 0
    ELSE LET other == CHOOSE o \in others : TRUE
             distance == position - p[other]
             res == IF position = NaN \/ p[other] = NaN THEN NaN
                    ELSE NMul[Sgn[distance], NQuot[mass[other], distance * distance]]
         IN  NAdd[res, SumField(p, target, position, others \ {other})]

\* the lambda compute_acceleration: - G * sum over the massive bodies but target
compute_acceleration(p, target, position) ==
    NMul[-1, SumField(p, target, position, Massives \ {target})]

\* a time step is the rational dtN / dtD ticks
HalfStep[x \in Int, dtN \in Int, dtD \in Int] == NQuot[NMul[x, dtN], 2 * dtD]
FullStep[x \in Int, dtN \in Int, dtD \in Int] == NQuot[NMul[x, dtN], dtD]

\* ------------------------------------------------------------------ pacing
\* variant: n_steps = floor(ratio)
NStepsFloor(dpm) == dpm \div DtTicks
\* ratio = days_per_millisecond / dt, n_steps = floor(ratio) + 1
NSteps(dpm) == (dpm \div DtTicks) + 1

\* the accumulator and the time step are kept as multiples of 1/n_steps tick:
\* timestep = dt * ratio / n_steps = days_per_millisecond / n_steps
n_steps == NSteps(days_per_millisecond)
\* ratio = static_cast<decltype(dt)>(days_per_millisecond) / dt, a fraction n / d
ratio == [n |-> days_per_millisecond, d |-> DtTicks]
\* timestep = dt * ratio / n_steps, a fraction n / d of a tick
timestep == [n |-> DtTicks * ratio.n, d |-> ratio.d * n_steps]
DayAcc == DayTicks * n_steps

\* ------------------------------------------------------- the world lock
\* variant: lock() does not wait for the shared holders
CanLockAmongReaders == lockX = "none"
\* std::shared_mutex::lock() returns when nobody holds the mutex
CanLock == lockX = "none" /\ lockS = {}
\* std::shared_mutex::lock_shared() returns when nobody holds it exclusively
CanLockShared == lockX = "none"

\* ------------------------------------------------------ simulation task
\* update(): the body of the lambda given to std::for_each, up to a_mid
NoLocals == [v_mid |-> 0, r_mid |-> 0, r_fin |-> 0, v_fin |-> 0]

\* Euler-Richardson, a0 and step 1
WorkerA0(target) ==
    /\ spc = "update" /\ wpc[target] = "a0"
    /\ LET r0 == pos[target]
           v0 == vel[target]
           a0 == compute_acceleration(pos, target, r0)
           v_mid == NAdd[v0, HalfStep[a0, timestep.n, timestep.d]]
           r_mid == NAdd[r0, HalfStep[v0, timestep.n, timestep.d]]
       IN  wloc' = [wloc EXCEPT ![target] = [@ EXCEPT !.v_mid = v_mid, !.r_mid = r_mid]]
    /\ wpc' = [wpc EXCEPT ![target] = "amid"]
    /\ obs' = [obs EXCEPT ![target] = Append(@, pos)]
    /\ UNCHANGED <<status, lockVars, pos, vel, trail, camVars, paramVars, mpc,
                   spc, day, accumulator, step, updated, ci, dumps,
                   renderVars, preStep, lastWriter, sinceStop, elapsed>>

\* variant: v_fin = v0 + a_mid, the factor dt is missing
WorkerAMidUnscaled(target) ==
    /\ spc = "update" /\ wpc[target] = "amid"
    /\ LET r0 == pos[target]
           v0 == vel[target]
           a_mid == compute_acceleration(pos, target, wloc[target].r_mid)
           r_fin == NAdd[r0, FullStep[wloc[target].v_mid, timestep.n, timestep.d]]
           v_fin == NAdd[v0, a_mid]
       IN  wloc' = [wloc EXCEPT ![target] = [@ EXCEPT !.r_fin = r_fin, !.v_fin = v_fin]]
    /\ wpc' = [wpc EXCEPT ![target] = "push"]
    /\ obs' = [obs EXCEPT ![target] = Append(@, pos)]
    /\ UNCHANGED <<status, lockVars, pos, vel, trail, camVars, paramVars, mpc,
                   spc, day, accumulator, step, updated, ci, dumps,
                   renderVars, preStep, lastWriter, sinceStop, elapsed>>

\* Euler-Richardson, step 2 and step 3 (r0 and v0 are references into the registry)
WorkerAMid(target) ==
    /\ spc = "update" /\ wpc[target] = "amid"
    /\ LET r0 == pos[target]
           v0 == vel[target]
           a_mid == compute_acceleration(pos, target, wloc[target].r_mid)
           r_fin == NAdd[r0, FullStep[wloc[target].v_mid, timestep.n, timestep.d]]
           v_fin == NAdd[v0, FullStep[a_mid, timestep.n, timestep.d]]
       IN  wloc' = [wloc EXCEPT ![target] = [@ EXCEPT !.r_fin = r_fin, !.v_fin = v_fin]]
    /\ wpc' = [wpc EXCEPT ![target] = "push"]
    /\ obs' = [obs EXCEPT ![target] = Append(@, pos)]
    /\ UNCHANGED <<status, lockVars, pos, vel, trail, camVars, paramVars, mpc,
                   spc, day, accumulator, step, updated, ci, dumps,
                   renderVars, preStep, lastWriter, sinceStop, elapsed>>

\* variant: the result is written into the registry as soon as it is computed
WorkerPushInPlace(target) ==
    /\ spc = "update" /\ wpc[target] = "push"
    /\ updated' = Append(updated, [entity |-> target, pos |-> wloc[target].r_fin,
                                   vel |-> wloc[target].v_fin])
    /\ pos' = [pos EXCEPT ![target] = wloc[target].r_fin]
    /\ vel' = [vel EXCEPT ![target] = wloc[target].v_fin]
    /\ wpc' = [wpc EXCEPT ![target] = "done"]
    /\ UNCHANGED <<status, lockVars, trail, camVars, paramVars, mpc,
                   spc, day, accumulator, step, wloc, ci, dumps,
                   renderVars, preStep, obs, lastWriter, sinceStop, elapsed>>

\* updated.push_back({target, r_fin, v_fin}) under updated_mtx
WorkerPush(target) ==
    /\ spc = "update" /\ wpc[target] = "push"
    /\ updated' = Append(updated, [entity |-> target, pos |-> wloc[target].r_fin,
                                   vel |-> wloc[target].v_fin])
    /\ wpc' = [wpc EXCEPT ![target] = "done"]
    /\ UNCHANGED <<status, lockVars, pos, vel, trail, camVars, paramVars, mpc,
                   spc, day, accumulator, step, wloc, ci, dumps,
                   renderVars, preStep, obs, lastWriter, sinceStop, elapsed>>

\* variant: the commit starts as soon as one result is in the buffer
UpdateLockEarly ==
    /\ spc = "update" /\ \E b \in Movables : wpc[b] = "done"
    /\ CanLock
    /\ lockX' = "sim"
    /\ spc' = "commit" /\ ci' = 1
    /\ UNCHANGED <<status, lockS, pos, vel, trail, camVars, paramVars, mpc,
                   day, accumulator, step, wpc, wloc, updated, dumps,
                   renderVars, preStep, obs, lastWriter, sinceStop, elapsed>>

\* std::for_each has returned; auto lock = std::scoped_lock{ctx}
UpdateLock ==
    /\ spc = "update" /\ \A b \in Movables : wpc[b] = "done"
    /\ CanLock
    /\ lockX' = "sim"
    /\ spc' = "commit" /\ ci' = 1
    /\ UNCHANGED <<status, lockS, pos, vel, trail, camVars, paramVars, mpc,
                   day, accumulator, step, wpc, wloc, updated, dumps,
                   renderVars, preStep, obs, lastWriter, sinceStop, elapsed>>

\* variant: the commit loop also samples the trail of the body
UpdateCommitWithTrail ==
    /\ spc = "commit" /\ ci <= Len(updated)
    /\ pos' = [pos EXCEPT ![updated[ci].entity] = updated[ci].pos]
    /\ vel' = [vel EXCEPT ![updated[ci].entity] = updated[ci].vel]
    /\ trail' = [b \in DOMAIN trail |->
                    IF b = updated[ci].entity
                    THEN [k \in 1 .. Len(trail[b]) |-> IF k = 1 THEN updated[ci].pos ELSE trail[b][k - 1]]
                    ELSE trail[b]]
    /\ lastWriter' = [lastWriter EXCEPT !.pos = "sim", !.vel = "sim", !.trail = "sim"]
    /\ ci' = ci + 1
    /\ UNCHANGED <<status, lockVars, camVars, paramVars, mpc,
                   spc, day, accumulator, step, wpc, wloc, updated, dumps,
                   renderVars, preStep, obs, sinceStop, elapsed>>

\* one iteration of the commit loop: emplace_or_replace position and velocity
UpdateCommit ==
    /\ spc = "commit" /\ ci <= Len(updated)
    /\ pos' = [pos EXCEPT ![updated[ci].entity] = updated[ci].pos]
    /\ vel' = [vel EXCEPT ![updated[ci].entity] = updated[ci].vel]
    /\ lastWriter' = [lastWriter EXCEPT !.pos = "sim", !.vel = "sim"]
    /\ ci' = ci + 1
    /\ UNCHANGED <<status, lockVars, trail, camVars, paramVars, mpc,
                   spc, day, accumulator, step, wpc, wloc, updated, dumps,
                   renderVars, preStep, obs, sinceStop, elapsed>>

\* variant: update() returns without releasing the lock
UpdateUnlockLeak ==
    /\ spc = "commit" /\ ci > Len(updated)
    /\ accumulator' = accumulator + days_per_millisecond
    /\ elapsed' = elapsed + days_per_millisecond
    /\ spc' = "sleep"
    /\ UNCHANGED <<status, lockVars, pos, vel, trail, camVars, paramVars, mpc,
                   day, step, wpc, wloc, updated, ci, dumps,
                   renderVars, preStep, obs, lastWriter, sinceStop>>

\* end of update(): the scoped_lock is released; accumulator = accumulator + timestep
UpdateUnlock ==
    /\ spc = "commit" /\ ci > Len(updated)
    /\ lockX' = "none"
    /\ accumulator' = accumulator + days_per_millisecond
    /\ elapsed' = elapsed + days_per_millisecond
    /\ spc' = "sleep"
    /\ UNCHANGED <<status, lockS, pos, vel, trail, camVars, paramVars, mpc,
                   day, step, wpc, wloc, updated, ci, dumps,
                   renderVars, preStep, obs, lastWriter, sinceStop>>

\* std::this_thread::sleep_until(...), then the next iteration of the burst
SimSleep ==
    /\ spc = "sleep"
    /\ step' = step + 1
    /\ spc' = "burst"
    /\ UNCHANGED <<status, lockVars, pos, vel, trail, camVars, paramVars, mpc,
                   day, accumulator, wpc, wloc, updated, ci, dumps,
                   renderVars, preStep, obs, lastWriter, sinceStop, elapsed>>

\* ctx.status.store(running)
SimStart ==
    /\ spc = "init"
    /\ status' = "running"
    /\ spc' = "day_loop"
    /\ UNCHANGED <<lockVars, pos, vel, trail, camVars, paramVars, mpc,
                   day, accumulator, step, wpc, wloc, updated, ci, dumps,
                   renderVars, preStep, obs, lastWriter, sinceStop, elapsed>>

\* variant: running is stored at the head of every day iteration
SimDayBeginStoresRunning ==
    /\ spc = "day_loop"
    /\ IF day < last_day
       THEN /\ accumulator' = accumulator - DayAcc
            /\ dumps' = Append(dumps, day)
            /\ status' = "running"
            /\ spc' = "check"
       ELSE /\ spc' = "store_stopped"
            /\ UNCHANGED <<status, accumulator, dumps>>
    /\ UNCHANGED <<lockVars, pos, vel, trail, camVars, paramVars, mpc,
                   day, step, wpc, wloc, updated, ci,
                   renderVars, preStep, obs, lastWriter, sinceStop, elapsed>>

\* head of the day loop: accumulator -= 24 h; dump(registry, day)
SimDayBegin ==
    /\ spc = "day_loop"
    /\ IF day < last_day
       THEN /\ accumulator' = accumulator - DayAcc
            /\ dumps' = Append(dumps, day)
            /\ spc' = "check"
       ELSE /\ spc' = "store_stopped"
            /\ UNCHANGED <<accumulator, dumps>>
    /\ UNCHANGED <<status, lockVars, pos, vel, trail, camVars, paramVars, mpc,
                   day, step, wpc, wloc, updated, ci,
                   renderVars, preStep, obs, lastWriter, sinceStop, elapsed>>

\* variant: the status is not consulted
SimCheckIgnore ==
    /\ spc = "check"
    /\ spc' = "burst" /\ step' = 0
    /\ UNCHANGED <<status, lockVars, pos, vel, trail, camVars, paramVars, mpc,
                   day, accumulator, wpc, wloc, updated, ci, dumps,
                   renderVars, preStep, obs, lastWriter, sinceStop, elapsed>>

\* head of the do loop: if (status.load() == stopped) return;
SimCheck ==
    /\ spc = "check"
    /\ IF status = "stopped"
       THEN spc' = "returned" /\ step' = step
       ELSE spc' = "burst" /\ step' = 0
    /\ UNCHANGED <<status, lockVars, pos, vel, trail, camVars, paramVars, mpc,
                   day, accumulator, wpc, wloc, updated, ci, dumps,
                   renderVars, preStep, obs, lastWriter, sinceStop, elapsed>>

\* variant: a stop seen at the end of a burst ends the day loop
SimBurstBreaksOnStop ==
    /\ spc = "burst"
    /\ IF step < n_steps
       THEN /\ spc' = "update"
            /\ wpc' = [b \in Movables |-> "a0"]
            /\ wloc' = [b \in Movables |-> NoLocals]
            /\ updated' = <<>>
            /\ preStep' = [pos |-> pos, vel |-> vel]
            /\ obs' = [b \in Movables |-> <<>>]
            /\ sinceStop' = IF status = "stopped" THEN sinceStop + 1 ELSE sinceStop
            /\ day' = day
       ELSE /\ IF status = "stopped"
               THEN spc' = "store_stopped" /\ day' = day
               ELSE IF accumulator < DayAcc
                    THEN spc' = "check" /\ day' = day
                    ELSE spc' = "day_loop" /\ day' = day + 1
            /\ UNCHANGED <<wpc, wloc, updated, preStep, obs, sinceStop>>
    /\ UNCHANGED <<status, lockVars, pos, vel, trail, camVars, paramVars, mpc,
                   accumulator, step, ci, dumps, renderVars, lastWriter,
                   elapsed>>

\* for (_ : iota(0, n_steps)) update(ctx, timestep) ... while (accumulator < 24 h)
SimBurst ==
    /\ spc = "burst"
    /\ IF step < n_steps
       THEN /\ spc' = "update"
            /\ wpc' = [b \in Movables |-> "a0"]
            /\ wloc' = [b \in Movables |-> NoLocals]
            /\ updated' = <<>>
            /\ preStep' = [pos |-> pos, vel |-> vel]
            /\ obs' = [b \in Movables |-> <<>>]
            /\ sinceStop' = IF status = "stopped" THEN sinceStop + 1 ELSE sinceStop
            /\ day' = day
       ELSE /\ IF accumulator < DayAcc
               THEN spc' = "check" /\ day' = day
               ELSE spc' = "day_loop" /\ day' = day + 1
            /\ UNCHANGED <<wpc, wloc, updated, preStep, obs, sinceStop>>
    /\ UNCHANGED <<status, lockVars, pos, vel, trail, camVars, paramVars, mpc,
                   accumulator, step, ci, dumps, renderVars, lastWriter,
                   elapsed>>

\* variant: the store of stopped is missing
SimStoreStoppedMissing ==
    /\ spc = "store_stopped"
    /\ spc' = "final_dump"
    /\ UNCHANGED <<status, lockVars, pos, vel, trail, camVars, paramVars, mpc,
                   day, accumulator, step, wpc, wloc, updated, ci, dumps,
                   renderVars, preStep, obs, lastWriter, sinceStop, elapsed>>

\* ctx.status.store(stopped)
SimStoreStopped ==
    /\ spc = "store_stopped"
    /\ status' = "stopped"
    /\ spc' = "final_dump"
    /\ UNCHANGED <<lockVars, pos, vel, trail, camVars, paramVars, mpc,
                   day, accumulator, step, wpc, wloc, updated, ci, dumps,
                   renderVars, preStep, obs, lastWriter, sinceStop, elapsed>>

\* dump(registry, last_day); return
SimFinalDump ==
    /\ spc = "final_dump"
    /\ dumps' = Append(dumps, last_day)
    /\ spc' = "returned"
    /\ UNCHANGED <<status, lockVars, pos, vel, trail, camVars, paramVars, mpc,
                   day, accumulator, step, wpc, wloc, updated, ci,
                   renderVars, preStep, obs, lastWriter, sinceStop, elapsed>>

update ==
    \/ \E target \in Movables : WorkerA0(target) \/ WorkerAMid(target) \/ WorkerPush(target)
    \/ UpdateLock
    \/ UpdateCommit
    \/ UpdateUnlock

simulation ==
    \/ SimStart
    \/ SimDayBegin
    \/ SimCheck
    \/ SimBurst
    \/ update
    \/ SimSleep
    \/ SimStoreStopped
    \/ SimFinalDump

\* ------------------------------------------------------ camera quantities
\* A camera vector is v + the sum of the terms of r, where a term
\* [z, x, d] stands for build_reversed_rotation_matrix({z, x}) * d
\* (its entries are sines and cosines, kept symbolic).
ZeroVec == [v |-> <<0, 0, 0>>, r |-> <<>>]
BodyVec(x) == [v |-> <<x, 0, 0>>, r |-> <<>>]
VAdd(a, b) == [v |-> <<NAdd[a.v[1], b.v[1]], NAdd[a.v[2], b.v[2]], NAdd[a.v[3], b.v[3]]>>,
               r |-> a.r \o b.r]

\* the angles build_rotation_matrix turns by, as fractions n / d of a full
\* turn: x_rad = rotation.x_axis * 2 * M_PI / 255, and the same for z_rad
build_rotation_matrix(rot) ==
    [x_rad |-> [n |-> rot.x_axis, d |-> 255],
     z_rad |-> [n |-> rot.z_axis, d |-> 255]]

\* two fractions of a turn that differ by a whole number of turns
SameAngle(a, b) == (a.n * b.d - b.n * a.d) % (a.d * b.d) = 0

\* build_reversed_rotation_matrix(rotation) * displacement
ReversedRotate(rot, d) ==
    IF d = <<0, 0, 0>> THEN ZeroVec
    ELSE IF rot.z_axis = 0 /\ rot.x_axis = 0 THEN [v |-> d, r |-> <<>>]
    ELSE [v |-> <<0, 0, 0>>, r |-> <<[z |-> rot.z_axis, x |-> rot.x_axis, d |-> d]>>]

RECURSIVE WeightedSum(_, _)
WeightedSum(p, bs) ==
    IF bs = {} THEN 0
    ELSE LET b == CHOOSE o \in bs : TRUE
         IN  NAdd[NMul[p[b], mass[b]], WeightedSum(p, bs \ {b})]

RECURSIVE TotalMass(_)
TotalMass(bs) ==
    IF bs = {} THEN 0
    ELSE LET b == CHOOSE o \in bs : TRUE IN mass[b] + TotalMass(bs \ {b})

\* 1./total_mass * wpos over the view of the bodies with position and mass
center_of_mass(p) == NQuot[WeightedSum(p, Massives), TotalMass(Massives)]

\* the viewing origin of a follow policy
absolute_position(p, f) ==
    IF f.kind = "nothing" THEN f.offset
    ELSE IF f.kind = "com" THEN VAdd(BodyVec(center_of_mass(p)), f.offset)
    ELSE VAdd(BodyVec(p[f.id]), f.offset)

FollowCom == [kind |-> "com", id |-> 0, offset |-> ZeroVec]
\* variant: the resolved origin is not captured
FollowNothingZero(o) == [kind |-> "nothing", id |-> 0, offset |-> ZeroVec]
FollowNothing(o) == [kind |-> "nothing", id |-> 0, offset |-> o]
FollowTarget(e) == [kind |-> "target", id |-> e, offset |-> ZeroVec]

\* ----------------------------------------------------------- io_events
Keys == {"q", "LEFT", "RIGHT", "UP", "DOWN", "+", "-", "a", "d", "w", "s", "other"}
ZoomStep == 10

NoBatch == [quit |-> FALSE, changes |-> {}, displacement |-> <<0, 0, 0>>,
            delta_view_radius |-> 0, rotation |-> [z_axis |-> 0, x_axis |-> 0]]

Displace(b, dx, dy) ==
    [b EXCEPT !.changes = @ \cup {"displacement"},
              !.displacement = <<@[1] + dx, @[2] + dy, @[3]>>]
Zoom(b, dr) ==
    [b EXCEPT !.changes = @ \cup {"zoom"}, !.delta_view_radius = @ + dr]
Rotate(b, dz, dx) ==
    [b EXCEPT !.changes = @ \cup {"rotation"},
              !.rotation = [z_axis |-> (@.z_axis + dz) % 256,
                            x_axis |-> (@.x_axis + dx) % 256]]

\* the switch over one event
OnEvent(b, key) ==
    CASE key = "q" -> [b EXCEPT !.quit = TRUE]
      [] key = "LEFT" -> Displace(b, -1, 0)
      [] key = "RIGHT" -> Displace(b, 1, 0)
      [] key = "UP" -> Displace(b, 0, -1)
      [] key = "DOWN" -> Displace(b, 0, 1)
      [] key = "+" -> Zoom(b, -ZoomStep)
      [] key = "-" -> Zoom(b, ZoomStep)
      [] key = "a" -> Rotate(b, 1, 0)
      [] key = "d" -> Rotate(b, -1, 0)
      [] key = "w" -> Rotate(b, 0, 1)
      [] key = "s" -> Rotate(b, 0, -1)
      [] OTHER -> b

\* the loop over SDLpp::event_range
RECURSIVE ProcessEvents(_, _)
ProcessEvents(b, evs) ==
    IF evs = <<>> THEN b ELSE ProcessEvents(OnEvent(b, Head(evs)), Tail(evs))

\* the keys the user of the state machine presses: one of each group of cases
PolledKeys == {"q", "LEFT", "+", "-", "a"}
EventSeqs(keys, n) == UNION {[1 .. k -> keys] : k \in 0 .. n}

\* the number of events of a batch that are the given key
Presses(evs, key) == Cardinality({i \in DOMAIN evs : evs[i] = key})
NoPresses == [a |-> 0, d |-> 0, w |-> 0, s |-> 0]

\* variant: std::min(x, hi), the lower bound is not applied
ClampUpper(x, lo, hi) == IF hi < x THEN hi ELSE x
\* std::clamp(x, lo, hi)
Clamp(x, lo, hi) == IF x < lo THEN lo ELSE IF hi < x THEN hi ELSE x

\* the event loop of io_events; a quit event stores stopped at once
IoPoll ==
    /\ rpc = "io_events"
    /\ \E evs \in EventSeqs(keyboard, Min(MaxBatch, inputs)) :
          LET b == ProcessEvents(NoBatch, evs)
          IN  /\ inputs' = inputs - Len(evs)
              /\ pressed' = [k \in DOMAIN pressed |-> pressed[k] + Presses(evs, k)]
              /\ status' = IF b.quit THEN "stopped" ELSE status
              /\ batch' = IF b.changes = {} THEN NoBatch ELSE b
              /\ rpc' = IF b.changes = {} THEN "trail_check" ELSE "io_lock"
    /\ UNCHANGED <<lockVars, pos, vel, trail, camVars, paramVars, mpc, simVars,
                   count, current_target, shown, lastWriter, widgets>>

\* if (changes != 0) { auto lock = std::scoped_lock{ctx};
IoLock ==
    /\ rpc = "io_lock"
    /\ CanLock
    /\ lockX' = "render"
    /\ rpc' = "io_apply"
    /\ UNCHANGED <<status, lockS, pos, vel, trail, camVars, paramVars, mpc, simVars,
                   count, batch, current_target, shown, inputs, lastWriter, pressed, widgets>>

\* if ((changes & zoom_changed) != 0) ctx.view_radius = std::clamp(...)
ApplyZoom(vr, b, min_max) ==
    IF "zoom" \in b.changes
    THEN Clamp(vr + b.delta_view_radius, min_max[1], min_max[2])
    ELSE vr

\* variant: ctx.rotation = rotation, the counters of the batch replace those of the context
ApplyRotationAssigns(rot, b) ==
    IF "rotation" \in b.changes
    THEN [z_axis |-> b.rotation.z_axis, x_axis |-> b.rotation.x_axis]
    ELSE rot

\* if ((changes & rotation_changed) != 0) ctx.rotation.z_axis += ..., x_axis += ...
ApplyRotation(rot, b) ==
    IF "rotation" \in b.changes
    THEN [z_axis |-> (rot.z_axis + b.rotation.z_axis) % 256,
          x_axis |-> (rot.x_axis + b.rotation.x_axis) % 256]
    ELSE rot

\* variant: a displacement leaves the camera in place at the displaced offset
ApplyDisplacementStops(f, rot, b) ==
    IF "displacement" \in b.changes
    THEN [kind |-> "nothing", id |-> 0,
          offset |-> VAdd(f.offset, ReversedRotate(rot, b.displacement))]
    ELSE f

\* if ((changes & displacement_changed) != 0) std::visit(follow.offset = follow.offset + ...)
ApplyDisplacement(f, rot, b) ==
    IF "displacement" \in b.changes
    THEN [f EXCEPT !.offset = VAdd(@, ReversedRotate(rot, b.displacement))]
    ELSE f

\* variant: the displacement is applied before the rotation
IoApplyDisplacesFirst ==
    /\ rpc = "io_apply"
    /\ view_radius' = ApplyZoom(view_radius, batch, min_max_view_radius)
    /\ rotation' = ApplyRotation(rotation, batch)
    /\ follow' = ApplyDisplacement(follow, rotation, batch)
    /\ lockX' = "none"
    /\ batch' = NoBatch
    /\ rpc' = "trail_check"
    /\ UNCHANGED <<status, lockS, pos, vel, trail, min_max_view_radius, paramVars,
                   mpc, simVars, count, current_target, shown, inputs, lastWriter, pressed, widgets>>

\* zoom, then rotation, then displacement; the lock is released at the end
IoApply ==
    /\ rpc = "io_apply"
    /\ view_radius' = ApplyZoom(view_radius, batch, min_max_view_radius)
    /\ rotation' = ApplyRotation(rotation, batch)
    /\ follow' = ApplyDisplacement(follow, rotation', batch)
    /\ lockX' = "none"
    /\ batch' = NoBatch
    /\ rpc' = "trail_check"
    /\ UNCHANGED <<status, lockS, pos, vel, trail, min_max_view_radius, paramVars,
                   mpc, simVars, count, current_target, shown, inputs, lastWriter, pressed, widgets>>

\* -------------------------------------------------------- update_trail
\* a counter above MaxFps / 10 equals fps.count() / 10 for no fps up to
\* MaxFps: the values from CountCap on are kept as CountCap
CountCap == (MaxFps \div 10) + 1

\* if (++count == fps.count() / 10) { update_trail(ctx); count = 0; }
\* fps.count() is a double, so the comparison is that of count with fps / 10
TrailCheck ==
    /\ rpc = "trail_check"
    /\ IF 10 * (count + 1) = fps
       THEN rpc' = "trail_lock"
       ELSE rpc' = "cam_lock"
    /\ count' = Min(count + 1, CountCap)
    /\ UNCHANGED <<status, lockVars, pos, vel, trail, camVars, paramVars, mpc, simVars,
                   batch, current_target, shown, inputs, lastWriter, pressed, widgets>>

\* variant: update_trail does not wait for the lock
TrailLockNoWait ==
    /\ rpc = "trail_lock"
    /\ lockX' = "render"
    /\ rpc' = "trail_write"
    /\ UNCHANGED <<status, lockS, pos, vel, trail, camVars, paramVars, mpc, simVars,
                   count, batch, current_target, shown, inputs, lastWriter, pressed, widgets>>

\* auto const lock = std::scoped_lock{ctx};
TrailLock ==
    /\ rpc = "trail_lock"
    /\ CanLock
    /\ lockX' = "render"
    /\ rpc' = "trail_write"
    /\ UNCHANGED <<status, lockS, pos, vel, trail, camVars, paramVars, mpc, simVars,
                   count, batch, current_target, shown, inputs, lastWriter, pressed, widgets>>

\* variant: t.push_front(p) without t.pop_back()
push_front_only(t, p) == <<p>> \o t

\* t.push_front(p); t.pop_back() for every body with a trail; unlock; count = 0
push_front_pop_back(t, p) == [k \in 1 .. Len(t) |-> IF k = 1 THEN p ELSE t[k - 1]]

TrailWrite ==
    /\ rpc = "trail_write"
    /\ trail' = [b \in DOMAIN trail |-> push_front_pop_back(trail[b], pos[b])]
    /\ lastWriter' = [lastWriter EXCEPT !.trail = "render"]
    /\ lockX' = "none"
    /\ count' = 0
    /\ rpc' = "cam_lock"
    /\ UNCHANGED <<status, lockS, pos, vel, camVars, paramVars, mpc, simVars,
                   batch, current_target, shown, inputs, pressed, widgets>>

\* ------------------------------------------------- draw_camera_settings
\* auto _1 = std::shared_lock{ctx};
CamLock ==
    /\ rpc = "cam_lock"
    /\ CanLockShared
    /\ lockS' = lockS \cup {"render"}
    /\ rpc' = "cam_edit"
    /\ UNCHANGED <<status, lockX, pos, vel, trail, camVars, paramVars, mpc, simVars,
                   count, batch, current_target, shown, inputs, lastWriter, pressed, widgets>>

\* the locals of draw_camera_settings outside a frame: no radio button
\* clicked, no list entry selected
NoWidgets == [click |-> "none", sel |-> 0, index |-> "com", replaced |-> FollowCom]

\* variant: current_target.has_value() is not tested
AfterRadioNoCheck(click, f, p, tg) ==
    IF click = "com" THEN FollowCom
    ELSE IF click = "nth" THEN FollowNothing(absolute_position(p, f))
    ELSE IF click = "target" THEN FollowTarget(tg)
    ELSE f

\* the radio buttons: at most one reports a click in a frame
AfterRadio(click, f, p, tg) ==
    IF click = "com" THEN FollowCom
    ELSE IF click = "nth" THEN FollowNothing(absolute_position(p, f))
    ELSE IF click = "target" /\ tg # 0 THEN FollowTarget(tg)
    ELSE f

\* variant: the policy at the start of the frame is not looked at
AfterSelectAnyPolicy(sel, index, f) ==
    IF sel # 0 THEN FollowTarget(sel) ELSE f

\* the combo list: a clicked entry becomes current_target, and the
\* followed body when the policy at the start of the frame was target
AfterSelect(sel, index, f) ==
    IF sel # 0 /\ index = "target" THEN FollowTarget(sel) ELSE f

\* variant: _1.unlock() is missing
CamEditKeepsShared ==
    /\ rpc = "cam_edit"
    /\ \E click \in {"none", "com", "nth", "target"}, sel \in {0} \cup Bodies :
          /\ click = "none" \/ sel = 0
          /\ (click # "none" \/ sel # 0) => inputs > 0
          /\ inputs' = IF click # "none" \/ sel # 0 THEN inputs - 1 ELSE inputs
          /\ follow' = AfterSelect(sel, follow.kind,
                                   AfterRadio(click, follow, pos, current_target))
          /\ current_target' = IF sel # 0 THEN sel ELSE current_target
          /\ widgets' = [click |-> click, sel |-> sel, index |-> follow.kind,
                          replaced |-> follow]
    /\ rpc' = "cam_drag"
    /\ UNCHANGED <<status, lockVars, pos, vel, trail, view_radius, rotation,
                   min_max_view_radius, paramVars, mpc, simVars,
                   count, batch, shown, lastWriter, pressed>>

\* the widgets up to _1.unlock(): ctx.follow is assigned under the shared lock
CamEdit ==
    /\ rpc = "cam_edit"
    /\ \E click \in {"none", "com", "nth", "target"}, sel \in {0} \cup Bodies :
          /\ click = "none" \/ sel = 0
          /\ (click # "none" \/ sel # 0) => inputs > 0
          /\ inputs' = IF click # "none" \/ sel # 0 THEN inputs - 1 ELSE inputs
          /\ follow' = AfterSelect(sel, follow.kind,
                                   AfterRadio(click, follow, pos, current_target))
          /\ current_target' = IF sel # 0 THEN sel ELSE current_target
          /\ widgets' = [click |-> click, sel |-> sel, index |-> follow.kind,
                          replaced |-> follow]
    /\ lockS' = lockS \ {"render"}
    /\ rpc' = "cam_drag"
    /\ UNCHANGED <<status, lockX, pos, vel, trail, view_radius, rotation,
                   min_max_view_radius, paramVars, mpc, simVars,
                   count, batch, shown, lastWriter, pressed>>

\* ImGui::DragScalar on a copy of the radius read under the shared lock
DragValues(cur, lo, hi) == {Clamp(cur - 1, lo, hi), cur, Clamp(cur + 1, lo, hi)}

CamDrag ==
    /\ rpc = "cam_drag"
    /\ \E radius_count \in DragValues(view_radius, min_max_view_radius[1],
                                      min_max_view_radius[2]) :
          IF radius_count = view_radius
          THEN /\ rpc' = "rel_lock"
               /\ UNCHANGED <<batch, inputs>>
          ELSE /\ inputs > 0
               /\ inputs' = inputs - 1
               /\ batch' = [NoBatch EXCEPT !.delta_view_radius = radius_count]
               /\ rpc' = "cam_xlock"
    /\ widgets' = NoWidgets
    /\ UNCHANGED <<status, lockVars, pos, vel, trail, camVars, paramVars, mpc, simVars,
                   count, current_target, shown, lastWriter, pressed>>

\* auto _2 = std::scoped_lock{ctx};
CamXLock ==
    /\ rpc = "cam_xlock"
    /\ CanLock
    /\ lockX' = "render"
    /\ rpc' = "cam_set"
    /\ UNCHANGED <<status, lockS, pos, vel, trail, camVars, paramVars, mpc, simVars,
                   count, batch, current_target, shown, inputs, lastWriter, pressed, widgets>>

\* ctx.view_radius = radius_count; the lock is released
CamSet ==
    /\ rpc = "cam_set"
    /\ view_radius' = batch.delta_view_radius
    /\ batch' = NoBatch
    /\ lockX' = "none"
    /\ rpc' = "rel_lock"
    /\ UNCHANGED <<status, lockS, pos, vel, trail, rotation, follow, min_max_view_radius,
                   paramVars, mpc, simVars, count, current_target, shown, inputs,
                   lastWriter, pressed, widgets>>

\* ---------------------------------------------- draw_relative_distances
\* auto _ = std::shared_lock{ctx};
RelLock ==
    /\ rpc = "rel_lock"
    /\ CanLockShared
    /\ lockS' = lockS \cup {"render"}
    /\ rpc' = "rel_read"
    /\ UNCHANGED <<status, lockX, pos, vel, trail, camVars, paramVars, mpc, simVars,
                   count, batch, current_target, shown, inputs, lastWriter, pressed, widgets>>

\* the table is filled from the registry, then the lock is released
RelRead ==
    /\ rpc = "rel_read"
    /\ lockS' = lockS \ {"render"}
    /\ rpc' = "display"
    /\ UNCHANGED <<status, lockX, pos, vel, trail, camVars, paramVars, mpc, simVars,
                   count, batch, current_target, shown, inputs, lastWriter, pressed, widgets>>

\* --------------------------------------------------------------- display
NoShown == [origin |-> ZeroVec, pos |-> <<>>]

\* variant: compute_origin leaves the resolved origin in ctx.follow
DisplayOriginStoresOffset ==
    /\ rpc = "display"
    /\ CanLockShared
    /\ shown' = [origin |-> absolute_position(pos, follow), pos |-> <<>>]
    /\ follow' = FollowNothing(absolute_position(pos, follow))
    /\ rpc' = "display_entities"
    /\ UNCHANGED <<status, lockVars, pos, vel, trail, view_radius, rotation,
                   min_max_view_radius, paramVars, mpc, simVars,
                   count, batch, current_target, inputs, lastWriter, pressed, widgets>>

\* view_radius and rotation, then compute_origin: each under its own shared lock
DisplayOrigin ==
    /\ rpc = "display"
    /\ CanLockShared
    /\ shown' = [origin |-> absolute_position(pos, follow), pos |-> <<>>]
    /\ rpc' = "display_entities"
    /\ UNCHANGED <<status, lockVars, pos, vel, trail, camVars, paramVars, mpc, simVars,
                   count, batch, current_target, inputs, lastWriter, pressed, widgets>>

\* ts_get<brun::position>(ctx, entt) for the next entity of the view
DisplayEntity ==
    /\ rpc = "display_entities"
    /\ Len(shown.pos) < Cardinality(Bodies)
    /\ CanLockShared
    /\ shown' = [shown EXCEPT !.pos = Append(@, pos[Len(@) + 1])]
    /\ UNCHANGED <<status, lockVars, pos, vel, trail, camVars, paramVars, mpc, simVars,
                   rpc, count, batch, current_target, inputs, lastWriter, pressed, widgets>>

\* the lines and circles are drawn; renderer.present()
DisplayPresent ==
    /\ rpc = "display_entities"
    /\ Len(shown.pos) = Cardinality(Bodies)
    /\ shown' = NoShown
    /\ rpc' = "loop"
    /\ UNCHANGED <<status, lockVars, pos, vel, trail, camVars, paramVars, mpc, simVars,
                   count, batch, current_target, inputs, lastWriter, pressed, widgets>>

draw_graphics ==
    \/ CamLock \/ CamEdit \/ CamDrag \/ CamXLock \/ CamSet
    \/ RelLock \/ RelRead
    \/ DisplayOrigin \/ DisplayEntity \/ DisplayPresent

\* ---------------------------------------------------------- render_cycle
\* SDL, OpenGL and ImGui are set up; a failure returns or ends the process
RenderInit ==
    /\ rpc = "init"
    /\ \E outcome \in {"ok", "return", "exit"} :
          /\ rpc' = CASE outcome = "ok" -> "wait"
                      [] outcome = "return" -> "returned"
                      [] OTHER -> "exit"
          /\ spc' = IF outcome = "exit" THEN "exit" ELSE spc
          /\ mpc' = IF outcome = "exit" THEN "exit" ELSE mpc
    /\ UNCHANGED <<status, lockVars, pos, vel, trail, camVars, paramVars,
                   day, accumulator, step, wpc, wloc, updated, ci, dumps,
                   count, batch, current_target, shown, inputs,
                   preStep, obs, lastWriter, sinceStop, elapsed, pressed, widgets>>

\* while (status.load() == starting) yield();  count = 0
RenderWait ==
    /\ rpc = "wait"
    /\ IF status = "starting" THEN rpc' = "wait" ELSE rpc' = "loop"
    /\ count' = 0
    /\ UNCHANGED <<status, lockVars, pos, vel, trail, camVars, paramVars, mpc, simVars,
                   batch, current_target, shown, inputs, lastWriter, pressed, widgets>>

\* variant: while (status.load() != starting)
RenderLoopNotStarting ==
    /\ rpc = "loop"
    /\ IF status # "starting" THEN rpc' = "io_events" ELSE rpc' = "cleanup"
    /\ UNCHANGED <<status, lockVars, pos, vel, trail, camVars, paramVars, mpc, simVars,
                   count, batch, current_target, shown, inputs, lastWriter, pressed, widgets>>

\* while (status.load() == running) { ... }
RenderLoop ==
    /\ rpc = "loop"
    /\ IF status = "running" THEN rpc' = "io_events" ELSE rpc' = "cleanup"
    /\ UNCHANGED <<status, lockVars, pos, vel, trail, camVars, paramVars, mpc, simVars,
                   count, batch, current_target, shown, inputs, lastWriter, pressed, widgets>>

\* ImGui shutdown, "GFX Finished"
RenderCleanup ==
    /\ rpc = "cleanup"
    /\ rpc' = "returned"
    /\ UNCHANGED <<status, lockVars, pos, vel, trail, camVars, paramVars, mpc, simVars,
                   count, batch, current_target, shown, inputs, lastWriter, pressed, widgets>>

io_events == IoPoll \/ IoLock \/ IoApply
update_trail == TrailLock \/ TrailWrite

render_cycle ==
    \/ RenderInit
    \/ RenderWait
    \/ RenderLoop
    \/ io_events
    \/ TrailCheck
    \/ update_trail
    \/ draw_graphics
    \/ RenderCleanup

\* ------------------------------------------------------------ the loader
\* a TOML node: absent, a number, a string, or an array of nodes
NoNode == [kind |-> "none", val |-> 0, items |-> <<>>]
Num(x) == [kind |-> "number", val |-> x, items |-> <<>>]
Str == [kind |-> "string", val |-> 0, items |-> <<>>]
Arr(xs) == [kind |-> "array", val |-> 0, items |-> xs]

\* tl::expected and std::optional: a value, or none
Value(x) == [has_value |-> TRUE, value |-> x]
Unexpected == [has_value |-> FALSE, value |-> 0]
Nullopt == [has_value |-> FALSE, value |-> 0]

\* expect<T>(table, attr, default_val) for an arithmetic T.  A node that is
\* there but holds no number makes node.value<double>() an empty optional,
\* which is dereferenced: the result is whatever its storage holds (garbage).
expect(node, default_val, garbage) ==
    IF node.kind = "none"
    THEN IF default_val.has_value THEN Value(default_val.value) ELSE Unexpected
    ELSE IF node.kind = "number" THEN Value(node.val)
    ELSE Value(garbage)

\* build_vector<Vector>: a scalar goes on the y axis of a position and on
\* the x axis of a velocity
build_vector(node, is_position) ==
    LET scalar(value) == IF is_position THEN <<0, value, 0>> ELSE <<value, 0, 0>>
        arr == node.items
    IN  IF node.kind = "array"
        THEN IF Len(arr) # 1 /\ Len(arr) # 3 THEN Unexpected
             ELSE IF arr[1].kind # "number" THEN Unexpected
             ELSE IF Len(arr) = 1 THEN Value(scalar(arr[1].val))
             ELSE IF arr[2].kind # "number" \/ arr[3].kind # "number" THEN Unexpected
             ELSE Value(<<arr[1].val, arr[2].val, arr[3].val>>)
        ELSE IF node.kind = "number" THEN Value(scalar(node.val))
        ELSE Unexpected

\* registry.emplace<Component>(entity, value)
emplace(component, entity, value) ==
    [b \in DOMAIN component \cup {entity} |-> IF b = entity THEN value ELSE component[b]]

EmptyRegistry == [pos |-> <<>>, vel |-> <<>>, mass |-> <<>>, trail |-> <<>>]
Exit(code, registry) == [exit |-> code, reg |-> registry]

\* the exit codes of the loader, by the error they report
ExitCode ==
    [missing_file |-> 1, unopenable_file |-> 2, unsupported_extension |-> 3,
     mass |-> 5, position |-> 6, velocity |-> 7, px_radius |-> 7,
     default_color |-> 7, default_px_radius |-> 7, negative_px_radius |-> 8]

\* variant: a table without mass is registered without a mass
extract_object_mass_optional(registry, table, default_trail_length, default_trail_density, default_color, default_px_radius, garbage) ==
    LET m == expect(table.mass, Nullopt, garbage)
        trail_len == expect(table.motion_trail_length, default_trail_length, garbage)
        trail_den == expect(table.motion_trail_density, default_trail_density, garbage)
        px_radius == expect(table.px_radius, default_px_radius, garbage)
        position == build_vector(table.distance, TRUE)
        velocity == build_vector(table.orbital_velocity, FALSE)
        entity == Cardinality(DOMAIN registry.pos) + 1
        n == trail_len.value
        d == trail_den.value
    IN  IF ~position.has_value THEN Exit(ExitCode.position, registry)
        ELSE IF ~velocity.has_value THEN Exit(ExitCode.velocity, registry)
        ELSE IF ~px_radius.has_value THEN Exit(ExitCode.px_radius, registry)
        ELSE IF px_radius.value < 0 THEN Exit(ExitCode.negative_px_radius, registry)
        ELSE Exit(0, [pos |-> emplace(registry.pos, entity, position.value[1]),
                      vel |-> emplace(registry.vel, entity, velocity.value[1]),
                      mass |-> IF m.has_value
                               THEN emplace(registry.mass, entity, m.value)
                               ELSE registry.mass,
                      trail |-> IF d * n > 0
                                THEN emplace(registry.trail, entity,
                                             [k \in 1 .. n * d |-> position.value[1]])
                                ELSE registry.trail])

\* extract_object for a table without satellites; the model keeps the x
\* component of the vectors
extract_object(registry, table, default_trail_length, default_trail_density, default_color, default_px_radius, garbage) ==
    LET m == expect(table.mass, Nullopt, garbage)
        trail_len == expect(table.motion_trail_length, default_trail_length, garbage)
        trail_den == expect(table.motion_trail_density, default_trail_density, garbage)
        px_radius == expect(table.px_radius, default_px_radius, garbage)
        position == build_vector(table.distance, TRUE)
        velocity == build_vector(table.orbital_velocity, FALSE)
        entity == Cardinality(DOMAIN registry.pos) + 1
        n == trail_len.value
        d == trail_den.value
    IN  IF ~m.has_value THEN Exit(ExitCode.mass, registry)
        ELSE IF ~position.has_value THEN Exit(ExitCode.position, registry)
        ELSE IF ~velocity.has_value THEN Exit(ExitCode.velocity, registry)
        ELSE IF ~px_radius.has_value THEN Exit(ExitCode.px_radius, registry)
        ELSE IF px_radius.value < 0 THEN Exit(ExitCode.negative_px_radius, registry)
        ELSE Exit(0, [pos |-> emplace(registry.pos, entity, position.value[1]),
                      vel |-> emplace(registry.vel, entity, velocity.value[1]),
                      mass |-> emplace(registry.mass, entity, m.value),
                      trail |-> IF d * n > 0
                                THEN emplace(registry.trail, entity,
                                             [k \in 1 .. n * d |-> position.value[1]])
                                ELSE registry.trail])

\* the loop of build_registry over toml["object"]
RECURSIVE ExtractObjects(_, _, _, _, _, _, _)
ExtractObjects(registry, objects, dtl, dtd, dc, dpr, garbage) ==
    IF objects = <<>> THEN Exit(0, registry)
    ELSE LET r == extract_object(registry, Head(objects), dtl, dtd, dc, dpr, garbage)
         IN  IF r.exit # 0 THEN r
             ELSE ExtractObjects(r.reg, Tail(objects), dtl, dtd, dc, dpr, garbage)

\* detail::build_registry(toml::table const &)
build_registry(toml, garbage) ==
    LET default_trail_length == expect(toml.config.motion_trail_length, Value(0), garbage)
        default_trail_density == expect(toml.config.motion_trail_density, Value(5), garbage)
        default_color == expect(toml.config.default_color, Value(16777215), garbage)
        default_px_radius == expect(toml.config.default_px_radius, Value(5), garbage)
    IN  IF ~default_color.has_value THEN Exit(ExitCode.default_color, EmptyRegistry)
        ELSE IF ~default_px_radius.has_value
             THEN Exit(ExitCode.default_px_radius, EmptyRegistry)
        ELSE IF default_px_radius.value < 0
             THEN Exit(ExitCode.negative_px_radius, EmptyRegistry)
        ELSE ExtractObjects(EmptyRegistry, toml.object, default_trail_length,
                            default_trail_density, default_color, default_px_radius,
                            garbage)

\* brun::load_data: detail::load_data, then build_registry on a TOML table
load_data(file, garbage) ==
    IF ~file.exists THEN Exit(ExitCode.missing_file, EmptyRegistry)
    ELSE IF ~file.opens THEN Exit(ExitCode.unopenable_file, EmptyRegistry)
    ELSE IF file.ext = ".toml" THEN build_registry(file.toml, garbage)
    ELSE Exit(ExitCode.unsupported_extension, EmptyRegistry)

\* what an empty std::optional<double> may hold when it is dereferenced
Garbage == {-1, 0, 64}

\* an [[object]] table of a body on the x axis, and a file of such tables
Object(m, x, v, trailed) ==
    [mass |-> Num(m),
     distance |-> Arr(<<Num(x), Num(0), Num(0)>>),
     orbital_velocity |-> Num(v),
     px_radius |-> NoNode,
     motion_trail_length |-> IF trailed THEN Num(TrailCap) ELSE NoNode,
     motion_trail_density |-> IF trailed THEN Num(1) ELSE NoNode]
TomlFile(objects) ==
    [exists |-> TRUE, opens |-> TRUE, ext |-> ".toml",
     toml |-> [config |-> [motion_trail_length |-> NoNode, motion_trail_density |-> NoNode,
                           default_color |-> NoNode, default_px_radius |-> NoNode],
               object |-> objects]]

\* the file of the bodies of InitPos, InitVel, InitMass and InitTrail
ObjectOf(b) == Object(InitMass[b], InitPos[b], InitVel[b], b \in HasTrail)
BaseConfig == TomlFile([b \in Entities |-> ObjectOf(b)])

\* ------------------------------------------------------------------ main
\* auto worker = std::jthread{brun::simulation, std::ref(ctx), days_per_second};
MainSpawnWorker ==
    /\ mpc = "spawn_worker"
    /\ spc' = "init"
    /\ mpc' = "spawn_io"
    /\ UNCHANGED <<status, lockVars, pos, vel, trail, camVars, paramVars,
                   day, accumulator, step, wpc, wloc, updated, ci, dumps,
                   renderVars, preStep, obs, lastWriter, sinceStop, elapsed>>

\* auto io = fps.count() > 0 ? std::jthread{brun::render_cycle, ...} : std::jthread{};
MainSpawnIo ==
    /\ mpc = "spawn_io"
    /\ rpc' = IF fps > 0 THEN "init" ELSE "none"
    /\ mpc' = "join_io"
    /\ UNCHANGED <<status, lockVars, pos, vel, trail, camVars, paramVars, simVars,
                   count, batch, current_target, shown, inputs, lastWriter, pressed, widgets>>

\* return 0: ~jthread of io joins the render task
MainJoinIo ==
    /\ mpc = "join_io"
    /\ rpc \in {"none", "returned"}
    /\ mpc' = "join_worker"
    /\ UNCHANGED <<status, lockVars, pos, vel, trail, camVars, paramVars, simVars,
                   renderVars, lastWriter>>

\* ~jthread of worker joins the simulation task
MainJoinWorker ==
    /\ mpc = "join_worker"
    /\ spc = "returned"
    /\ mpc' = "returned"
    /\ UNCHANGED <<status, lockVars, pos, vel, trail, camVars, paramVars, simVars,
                   renderVars, lastWriter>>

main == MainSpawnWorker \/ MainSpawnIo \/ MainJoinIo \/ MainJoinWorker

\* ------------------------------------------------------------ parameters
DpmSet == {1, 2}
FpsSet == {0, 20}
ViewRadiusSet == {15}

\* 1.01 * the largest distance of a body from the origin
LargestDistance(p) == LET far == CHOOSE b \in DOMAIN p : \A o \in DOMAIN p : Abs[p[o]] <= Abs[p[b]]
                      IN  Quot[101 * Abs[p[far]], 100]

\* std::tie(ctx.reg, params->points_per_day) = brun::load_data(filename), and
\* min_max_view_radius.second; a loader error ends the process
MainLoad ==
    /\ mpc = "load_data"
    /\ \E garbage \in Garbage :
          LET r == load_data(config, garbage)
              movables == DOMAIN r.reg.pos \cap DOMAIN r.reg.vel \cap DOMAIN r.reg.mass
          IN  IF r.exit # 0
              THEN /\ exit_code' = r.exit
                   /\ mpc' = "exit"
                   /\ UNCHANGED <<pos, vel, mass, trail, min_max_view_radius,
                                  wpc, wloc, obs, preStep>>
              ELSE /\ pos' = r.reg.pos /\ vel' = r.reg.vel /\ mass' = r.reg.mass
                   /\ trail' = r.reg.trail
                   /\ min_max_view_radius' =
                         <<0, Max(LargestDistance(r.reg.pos), view_radius)>>
                   /\ wpc' = [b \in movables |-> "done"]
                   /\ wloc' = [b \in movables |-> NoLocals]
                   /\ obs' = [b \in movables |-> <<>>]
                   /\ preStep' = [pos |-> r.reg.pos, vel |-> r.reg.vel]
                   /\ mpc' = "spawn_worker"
                   /\ UNCHANGED exit_code
    /\ UNCHANGED <<status, lockVars, view_radius, rotation, follow,
                   days_per_millisecond, fps, config, keyboard,
                   spc, day, accumulator, step, updated, ci, dumps,
                   renderVars, lastWriter, sinceStop, elapsed>>

\* the state main leaves when it spawns the threads, for the given files
\* and command lines
Started(files, dpms, fpss, events) ==
    /\ status = "starting"
    /\ lockX = "none" /\ lockS = {}
    /\ config \in files /\ exit_code = 0
    /\ \E garbage \in Garbage :
          LET r == load_data(config, garbage)
          IN  /\ r.exit = 0
              /\ pos = r.reg.pos /\ vel = r.reg.vel /\ mass = r.reg.mass
              /\ trail = r.reg.trail
    /\ view_radius \in ViewRadiusSet
    /\ rotation = [z_axis |-> 0, x_axis |-> 0]
    /\ follow = FollowCom
    /\ min_max_view_radius = <<0, Max(LargestDistance(pos), view_radius)>>
    /\ days_per_millisecond \in dpms
    /\ fps \in fpss
    /\ mpc = "spawn_worker"
    /\ spc = "unborn" /\ day = first_day /\ accumulator = DayAcc /\ step = 0
    /\ wpc = [b \in Movables |-> "done"] /\ wloc = [b \in Movables |-> NoLocals]
    /\ updated = <<>> /\ ci = 1 /\ dumps = <<>>
    /\ rpc = "unborn" /\ count = 0 /\ batch = NoBatch /\ current_target = 0
    /\ shown = NoShown
    /\ inputs = events
    /\ pressed = NoPresses
    /\ widgets = NoWidgets
    /\ preStep = [pos |-> pos, vel |-> vel] /\ obs = [b \in Movables |-> <<>>]
    /\ lastWriter = [pos |-> "loader", vel |-> "loader", trail |-> "loader"]
    /\ sinceStop = 0
    /\ elapsed = 0

InitWith(dpms, fpss, events) ==
    Started({BaseConfig}, dpms, fpss, events) /\ keyboard = PolledKeys

\* the contents the files try for the fields the loader reads
ObjectFields == {"mass", "distance", "orbital_velocity", "px_radius", "motion_trail_length"}
ObjectValues(f) ==
    CASE f = "mass" -> {NoNode, Str}
      [] f = "distance" -> {NoNode, Str, Arr(<<Num(8), Num(0)>>), Arr(<<Str, Num(0), Num(0)>>)}
      [] f = "orbital_velocity" -> {NoNode, Str, Arr(<<Num(2)>>), Arr(<<Num(2), Num(0)>>),
                                    Arr(<<Num(2), Num(0), Str>>)}
      [] f = "px_radius" -> {Num(5), Num(-1), Str}
      [] f = "motion_trail_length" -> {NoNode}
ConfigFields == {"default_color", "default_px_radius"}
ConfigValues(f) ==
    CASE f = "default_color" -> {Num(255), Str}
      [] f = "default_px_radius" -> {Num(5), Num(-1), Str}

\* the files that differ from c in one place
Edits(c) ==
    {[c EXCEPT !.exists = FALSE], [c EXCEPT !.opens = FALSE], [c EXCEPT !.ext = ".txt"]}
    \cup UNION {{[c EXCEPT !.toml.config[f] = v] : v \in ConfigValues(f)} : f \in ConfigFields}
    \cup UNION {UNION {{[c EXCEPT !.toml.object[i][f] = v] : v \in ObjectValues(f)}
                       : f \in ObjectFields} : i \in DOMAIN c.toml.object}

RECURSIVE Edited(_, _)
Edited(cs, n) == IF n = 0 THEN cs ELSE Edited(cs \cup UNION {Edits(c) : c \in cs}, n - 1)

\* the files given to the program: BaseConfig with up to MaxDefects changes
Configs == Edited({BaseConfig}, MaxDefects)

\* main before load_data: the registry is empty
LoadInit ==
    /\ status = "starting"
    /\ lockX = "none" /\ lockS = {}
    /\ config \in Configs /\ exit_code = 0
    /\ pos = <<>> /\ vel = <<>> /\ mass = <<>> /\ trail = <<>>
    /\ view_radius \in ViewRadiusSet
    /\ rotation = [z_axis |-> 0, x_axis |-> 0]
    /\ follow = FollowCom
    /\ min_max_view_radius = <<0, 0>>
    /\ days_per_millisecond = 2
    /\ fps = 20
    /\ mpc = "load_data"
    /\ spc = "unborn" /\ day = first_day /\ accumulator = DayAcc /\ step = 0
    /\ wpc = <<>> /\ wloc = <<>>
    /\ updated = <<>> /\ ci = 1 /\ dumps = <<>>
    /\ rpc = "unborn" /\ count = 0 /\ batch = NoBatch /\ current_target = 0
    /\ shown = NoShown
    /\ inputs = MaxInputs /\ keyboard = PolledKeys
    /\ pressed = NoPresses
    /\ widgets = NoWidgets
    /\ preStep = [pos |-> <<>>, vel |-> <<>>] /\ obs = <<>>
    /\ lastWriter = [pos |-> "loader", vel |-> "loader", trail |-> "loader"]
    /\ sinceStop = 0
    /\ elapsed = 0

Init == InitWith(DpmSet, FpsSet, MaxInputs)

Next == main \/ simulation \/ render_cycle

Spec == Init /\ [][Next]_vars

\* the program from the file on
LoadNext == MainLoad \/ Next
LoadSpec == LoadInit /\ [][LoadNext]_vars

\* one run of the program: --days-per-second is fixed on the command line
FairInit == Init /\ days_per_millisecond = 2

\* fair scheduling of the operating system threads
FairSpec ==
    FairInit /\ [][Next]_vars
    /\ WF_vars(main) /\ WF_vars(simulation) /\ WF_vars(render_cycle)

\* update as a function of the world and the time step: files of two
\* bodies with every pair of the velocities and masses below, no window,
\* and --days-per-second 0 for a time step of zero
StepVelocities == {-16, 0, 16}
StepMasses == {256, 512}
StepFiles ==
    {TomlFile(<<Object(m[1], 0, v[1], FALSE), Object(m[2], 16, v[2], FALSE)>>) :
        m \in StepMasses \X StepMasses, v \in StepVelocities \X StepVelocities}
StepInit == Started(StepFiles, 0 .. DtTicks, {0}, 0) /\ keyboard = PolledKeys
StepNext == main \/ simulation
StepSpec == StepInit /\ [][StepNext]_vars

\* the scheduler alone: --fps 0 starts no render task, so nothing stops the
\* simulation from outside; every --days-per-second up to MaxDpm ticks a ms
SchedInit == InitWith(1 .. MaxDpm, {0}, MaxInputs)
SchedNext == main \/ simulation
SchedSpec ==
    SchedInit /\ [][SchedNext]_vars /\ WF_vars(main) /\ WF_vars(simulation)

\* the camera window: a user who has time for MaxClicks inputs, enough to
\* choose a body, follow it and then stop following
UiInit == InitWith({2}, {20}, MaxClicks)
UiSpec == UiInit /\ [][Next]_vars

\* the trails: files that give the first body a trail of 2 .. MaxTrail slots
\* (motion_trail_length * motion_trail_density), sampled every frame or every
\* second frame
TrailShapes == {[length |-> n, density |-> 1] : n \in 2 .. MaxTrail}
                  \cup {[length |-> 1, density |-> 2]}
TrailFiles ==
    {TomlFile(<<[ObjectOf(1) EXCEPT !.motion_trail_length = Num(t.length),
                                    !.motion_trail_density = Num(t.density)],
                ObjectOf(2)>>) : t \in TrailShapes}
TrailInit == Started(TrailFiles, {2}, {10, 20}, MaxInputs) /\ keyboard = PolledKeys
TrailSpec == TrailInit /\ [][Next]_vars

\* the frame rates: --fps 5, 10, ... up to MaxFps
RateFps == {f \in 1 .. MaxFps : f % 5 = 0}
RateInit == InitWith({1}, RateFps, MaxInputs)
RateSpec == RateInit /\ [][Next]_vars

\* the keyboard: a user who presses MaxKeys of the camera keys, in one batch
\* or in several
CameraKeys == {"LEFT", "UP", "+", "-", "a", "d", "w", "s"}
KeyInit == Started({BaseConfig}, {2}, {20}, MaxKeys) /\ keyboard = CameraKeys
KeySpec == KeyInit /\ [][Next]_vars

\* ================================================================ claims
FramePcs == {"io_events", "io_lock", "io_apply", "trail_check", "trail_lock", "trail_write",
             "cam_lock", "cam_edit", "cam_drag", "cam_xlock", "cam_set",
             "rel_lock", "rel_read", "display", "display_entities"}
SimHoldsExclusive == spc = "commit"
RenderHoldsExclusive == rpc \in {"io_apply", "trail_write", "cam_set"}
RenderHoldsShared == rpc \in {"cam_edit", "rel_read"}
Rank(s) == CASE s = "starting" -> 0 [] s = "running" -> 1 [] OTHER -> 2

\* C1: within one update every acceleration evaluation (a0 and a_mid) of every
\* movable body has read, for each other body, the position that body had
\* when the update began, under every interleaving of the per-body computations.
C1_PreStepReads ==
    \A b \in Movables : \A k \in 1 .. Len(obs[b]) : \A o \in Massives \ {b} :
        obs[b][k][o] = preStep.pos[o]

C1_Witness ==
    \E b, c \in Movables :
        /\ wpc[b] = "done" /\ wpc[c] = "push" /\ Len(obs[c]) = 2
        /\ preStep.pos # InitPos
        /\ wloc[b].r_fin # preStep.pos[b]

\* C2: the commit loop of update runs only after every per-body computation
\* of the step has finished and while the simulation holds the lock
\* exclusively, and whenever a task holds the shared lock the positions and
\* velocities are either all those before the step or all those of the buffer.
C2_NoneOrAll ==
    /\ spc = "commit" =>
          /\ lockX = "sim"
          /\ \A b \in Movables : wpc[b] = "done"
          /\ Len(updated) = Cardinality(Movables)
    /\ lockS # {} =>
          \/ pos = preStep.pos /\ vel = preStep.vel
          \/ \A k \in 1 .. Len(updated) :
                /\ pos[updated[k].entity] = updated[k].pos
                /\ vel[updated[k].entity] = updated[k].vel

C2_Witness ==
    /\ spc = "commit" /\ 1 < ci /\ ci <= Len(updated)
    /\ pos # preStep.pos
    /\ rpc \in {"cam_lock", "rel_lock", "display"}

\* C3: an exclusive holder of the world lock excludes every other holder:
\* the commit section of update never overlaps the exclusive sections of
\* io_events, update_trail and the view radius edit, nor a section of the
\* render task under the shared lock.
C3_MutualExclusion ==
    /\ lockX # "none" => lockS = {}
    /\ ~(SimHoldsExclusive /\ RenderHoldsExclusive)
    /\ ~(SimHoldsExclusive /\ RenderHoldsShared)
    /\ SimHoldsExclusive => lockX = "sim"
    /\ RenderHoldsExclusive => lockX = "render"
    /\ RenderHoldsShared => "render" \in lockS

C3_Witness == spc = "commit" /\ ci > 1 /\ rpc = "trail_lock"

C5_StatusMonotonic == [][Rank(status') >= Rank(status)]_vars

C5_Witness == status = "stopped" /\ spc = "update" /\ rpc = "trail_check"

\* C6: every step that changes view_radius, rotation or follow is taken while
\* the render task holds the world lock exclusively.
C6_ExclusiveCameraWrites ==
    [][(view_radius' # view_radius \/ rotation' # rotation \/ follow' # follow)
          => lockX = "render"]_vars

\* C7: no part of a frame runs while the status is starting, a frame begins
\* only at the loop head with the status read as running, and once the status
\* is stopped the task begins no frame.
C7_StartBarrier ==
    /\ [](rpc \in FramePcs => status # "starting")
    /\ [][(rpc \notin FramePcs /\ rpc' \in FramePcs) => (rpc = "loop" /\ status = "running")]_vars
    /\ [][(status = "stopped" /\ rpc \in {"wait", "loop"}) => rpc' \notin FramePcs]_vars

C7_Witness == rpc = "io_events" /\ status = "running" /\ spc = "day_loop" /\ day = first_day

\* C8 (as stated): on observing stopped at the head of the do loop the
\* scheduler returns after one more dump.
C8_StopDumpsAndReturns ==
    [][(spc = "check" /\ status = "stopped" /\ spc' # spc)
          => (spc' = "returned" /\ Len(dumps') = Len(dumps) + 1)]_vars

\* C8 (amended): on observing stopped at the head of the do loop the
\* scheduler returns at once: no further update and no further dump, then
\* or later.
C8_StopReturns ==
    /\ [][(spc = "check" /\ status = "stopped" /\ spc' # spc)
            => (spc' = "returned" /\ UNCHANGED <<pos, vel, dumps, status>>)]_vars
    /\ [][spc = "returned" => UNCHANGED <<pos, vel, dumps>>]_vars

C8_Witness ==
    /\ spc = "returned" /\ day < last_day /\ status = "stopped"
    /\ pos # InitPos /\ Len(dumps) = day - first_day + 1

\* C9: the scheduler stores stopped only after the day loop has run every
\* iteration first_day .. last_day - 1, and the return on an observed stop
\* leaves the status as it is.
C9_StoreOnlyAtCompletion ==
    /\ [](spc = "store_stopped" => (day = last_day /\ Len(dumps) = last_day - first_day))
    /\ [][(spc = "check" /\ spc' = "returned") => status' = status]_vars
    /\ [][(status' # status /\ status' = "stopped" /\ rpc' = rpc) => spc = "store_stopped"]_vars

C9_Witness == spc = "final_dump" /\ status = "stopped" /\ day = last_day

\* C10: under fair scheduling, once the status is stopped the simulation task
\* and the render task both terminate.
C10_Termination ==
    (status = "stopped") ~> (spc \in {"returned", "exit"} /\ rpc \in {"none", "returned", "exit"})

C10_Witness ==
    /\ status = "stopped" /\ spc = "returned" /\ rpc = "returned"
    /\ day < last_day /\ inputs < MaxInputs

\* the positions left by the last completed step
CommittedPos == IF spc = "commit" THEN preStep.pos ELSE pos

\* C11: every trail keeps the length it was created with
\* (motion_trail_length * motion_trail_density), in every state and after
\* any number of samplings.
C11_TrailLength ==
    /\ DOMAIN trail = HasTrail
    /\ \A b \in HasTrail : Len(trail[b]) = TrailCap

C11_Witness ==
    /\ lastWriter.trail = "render" /\ trail # InitTrail
    /\ rpc = "trail_write" /\ pos # InitPos

\* C12: a sampling copies the positions left by one completed step: while
\* update_trail holds the lock no commit is in progress, the position pushed
\* on each trail is the one the latest completed step left, and the sampling
\* step itself changes no position.
C12_SamplingSeesCompletedStep ==
    /\ [](rpc = "trail_write" => (lockX = "render" /\ spc # "commit"))
    /\ [][trail' # trail =>
            /\ spc # "commit" /\ pos' = pos
            /\ \A b \in HasTrail : trail'[b][1] = CommittedPos[b]]_vars
    /\ [][(rpc = "trail_write" /\ rpc' = rpc) => pos' = pos]_vars

C12_Witness ==
    /\ rpc = "trail_write" /\ spc = "update" /\ pos # InitPos
    /\ \E b \in Movables : wpc[b] = "done"

\* C13: when display makes the last read of a frame, the origin and all the
\* positions it has read in that frame are those of the world at that moment:
\* no commit fell between the reads.
C13_FrameSnapshot ==
    [][(rpc = "display_entities" /\ Len(shown.pos) < Cardinality(Bodies)
          /\ Len(shown'.pos) = Cardinality(Bodies)) =>
            /\ \A k \in 1 .. NBodies : shown'.pos[k] = pos[k]
            /\ shown'.origin = absolute_position(pos, follow)]_vars

\* C14: the simulation task holds the world lock only during the commit
\* loop of update: not while it sleeps, not while the per-body computations
\* of a step run, nor anywhere else in the scheduler.
C14_LockOnlyInCommit ==
    /\ spc # "exit" => (lockX = "sim" <=> spc = "commit")
    /\ "sim" \notin lockS

C14_Witness ==
    /\ spc = "sleep" /\ step = 0 /\ n_steps > 1 /\ lockX = "render"
    /\ pos # InitPos

\* C15: a task that is about to request the world lock holds it in no mode,
\* a task never holds it in both modes, and whenever the render/input task
\* waits for the lock its holder is the simulation task inside the commit
\* loop (which releases it), so no state is a deadlock on the lock.
RenderRequestsExclusive == rpc \in {"io_lock", "trail_lock", "cam_xlock"}
RenderRequestsShared == rpc \in {"cam_lock", "rel_lock", "display"}
    \/ (rpc = "display_entities" /\ Len(shown.pos) < Cardinality(Bodies))
SimRequestsExclusive == spc = "update"

C15_NoNestedLock ==
    /\ (RenderRequestsExclusive \/ RenderRequestsShared) =>
          (lockX # "render" /\ "render" \notin lockS)
    /\ SimRequestsExclusive => (lockX # "sim" /\ "sim" \notin lockS)
    /\ ~(lockX = "render" /\ "render" \in lockS)
    /\ (RenderRequestsExclusive /\ ~CanLock) => (lockX = "sim" /\ spc = "commit")
    /\ (RenderRequestsShared /\ ~CanLockShared) => (lockX = "sim" /\ spc = "commit")
    /\ (SimRequestsExclusive /\ ~CanLock) =>
          (RenderHoldsExclusive \/ RenderHoldsShared)

C15_Witness ==
    /\ rpc = "cam_xlock" /\ ~CanLock /\ lockX = "sim" /\ spc = "commit" /\ ci > 1

\* C16: for every days_per_second > 0 the pacing quantities computed by
\* simulation satisfy n_steps >= 1, timestep * n_steps = days_per_ms and
\* 0 < timestep <= dt.
C16_Pacing ==
    /\ n_steps >= 1
    /\ 0 < timestep.d /\ 0 < timestep.n
    /\ timestep.n * n_steps = days_per_millisecond * timestep.d
    /\ timestep.n <= DtTicks * timestep.d

C16_Witness ==
    /\ spc = "sleep" /\ n_steps > 2 /\ days_per_millisecond % DtTicks # 0
    /\ pos # InitPos

\* C17: with no external stop the scheduler runs the day iterations
\* first_day .. last_day - 1, one dump each, leaves an iteration exactly when
\* the accumulator has reached 24 h, and then stores stopped, which
\* eventually happens.
C17_NaturalCompletion ==
    /\ <>(status = "stopped")
    /\ [](status = "stopped" => (day = last_day /\ Len(dumps) >= last_day - first_day))
    /\ [](spc = "store_stopped" => Len(dumps) = last_day - first_day)
    /\ [][(spc = "burst" /\ spc' = "day_loop") =>
             (accumulator >= DayAcc /\ day' = day + 1)]_vars
    /\ [][(spc = "burst" /\ spc' = "check") => accumulator < DayAcc]_vars
    /\ [][day' # day => (spc = "burst" /\ spc' = "day_loop")]_vars

C17_Witness ==
    /\ status = "stopped" /\ spc = "returned" /\ rpc = "none"
    /\ dumps = [k \in 1 .. MaxDays + 1 |-> first_day + k - 1]
    /\ days_per_millisecond < DayTicks

\* C18: resolving the viewing origin (compute_origin in display) changes
\* neither the follow policy nor any body, and returns the offset for
\* Stationary, the mass-weighted centroid plus the offset for CenterOfMass
\* and the entity's position plus the offset for Target.
C18_ResolveIsPureRead ==
    [][(rpc = "display" /\ rpc' = "display_entities") =>
          /\ follow' = follow /\ pos' = pos /\ vel' = vel /\ trail' = trail
          /\ follow.kind = "nothing" => shown'.origin = follow.offset
          /\ follow.kind = "com" =>
                shown'.origin = VAdd(BodyVec(NQuot[WeightedSum(pos, Massives),
                                                   TotalMass(Massives)]),
                                     follow.offset)
          /\ follow.kind = "target" =>
                shown'.origin = VAdd(BodyVec(pos[follow.id]), follow.offset)]_vars

C18_Witness ==
    /\ rpc = "display_entities" /\ shown.pos = <<>>
    /\ follow.kind = "target" /\ follow.id = 2
    /\ pos # InitPos
    /\ shown.origin = BodyVec(pos[2])
    /\ shown.origin # BodyVec(center_of_mass(pos))

\* C19: a frame of draw_camera_settings that leaves the camera Stationary
\* stores the origin resolved just before as the offset, so the origin
\* resolved after it equals the origin resolved before it; the frame holds
\* the shared lock, so no step commit falls between capture and switch.
C19_StationaryCapture ==
    [][(rpc = "cam_edit" /\ rpc' = "cam_drag" /\ follow'.kind = "nothing") =>
          /\ follow'.offset = absolute_position(pos, follow)
          /\ absolute_position(pos', follow') = absolute_position(pos, follow)
          /\ "render" \in lockS /\ lockX = "none" /\ spc # "commit"
          /\ pos' = pos]_vars

C19_Witness ==
    /\ rpc = "cam_drag" /\ follow.kind = "nothing" /\ inputs = 0
    /\ current_target = 2
    /\ pos # InitPos
    /\ follow.offset = BodyVec(pos[2])
    /\ follow.offset # BodyVec(center_of_mass(pos))

C22_CounterAngle ==
    LET m == build_rotation_matrix(rotation)
    IN  /\ m.z_rad.n * 256 = rotation.z_axis * m.z_rad.d
        /\ m.x_rad.n * 256 = rotation.x_axis * m.x_rad.d
        /\ \A c \in 0 .. 255 :
              LET o == build_rotation_matrix([z_axis |-> c, x_axis |-> c])
              IN  /\ SameAngle(o.z_rad, m.z_rad) => c = rotation.z_axis
                  /\ SameAngle(o.x_rad, m.x_rad) => c = rotation.x_axis

\* C21: every body that has a velocity also has a position and a mass, from
\* the loader on and through every step commit, trail sampling and camera
\* edit.
C21_MovableIsMassive ==
    /\ DOMAIN vel \subseteq DOMAIN pos
    /\ DOMAIN vel \subseteq DOMAIN mass
    /\ [pos |-> DOMAIN pos, vel |-> DOMAIN vel, mass |-> DOMAIN mass] \in
          {[pos |-> {}, vel |-> {}, mass |-> {}],
           [pos |-> DOMAIN config.toml.object, vel |-> DOMAIN config.toml.object,
            mass |-> DOMAIN config.toml.object]}

C21_Witness ==
    /\ config # BaseConfig /\ exit_code = 0
    /\ DOMAIN vel = Entities
    /\ lastWriter.pos = "sim" /\ lastWriter.trail = "render"
    /\ follow.kind = "nothing"
    /\ pos # InitPos

\* the categories of fatal configuration error a file falls into
Defects(c) ==
    LET objects == {c.toml.object[i] : i \in DOMAIN c.toml.object}
    IN  {cat \in {"missing_file", "unopenable_file", "unsupported_extension", "mass",
                  "position", "velocity", "px_radius", "negative_px_radius"} :
           CASE cat = "missing_file" -> ~c.exists
             [] cat = "unopenable_file" -> c.exists /\ ~c.opens
             [] cat = "unsupported_extension" -> c.ext \notin {".toml", ".json"}
             [] cat = "mass" -> \E o \in objects : o.mass.kind # "number"
             [] cat = "position" -> \E o \in objects : ~build_vector(o.distance, TRUE).has_value
             [] cat = "velocity" ->
                   \E o \in objects : ~build_vector(o.orbital_velocity, FALSE).has_value
             [] cat = "px_radius" ->
                   \/ \E o \in objects : o.px_radius.kind \notin {"none", "number"}
                   \/ c.toml.config.default_color.kind \notin {"none", "number"}
                   \/ c.toml.config.default_px_radius.kind \notin {"none", "number"}
             [] cat = "negative_px_radius" ->
                   \/ \E o \in objects : o.px_radius.kind = "number" /\ o.px_radius.val < 0
                   \/ /\ c.toml.config.default_px_radius.kind = "number"
                      /\ c.toml.config.default_px_radius.val < 0}

\* C25: a file with a fatal configuration error ends the process with the
\* exit code of its category, and the categories have pairwise distinct
\* exit codes.
C25_ExitCodePerCategory ==
    /\ (mpc # "load_data" /\ Defects(config) # {}) =>
          exit_code \in {ExitCode[cat] : cat \in Defects(config)}
    /\ \A a, b \in {"missing_file", "unopenable_file", "unsupported_extension", "mass",
                    "position", "velocity", "px_radius", "negative_px_radius"} :
          ExitCode[a] = ExitCode[b] => a = b

\* C23: with a time step of zero and no two massive bodies at the same
\* place, an update leaves every position and velocity as it was.
C23_ZeroStep ==
    /\ [][(spc = "commit" /\ timestep.n = 0
           /\ \A a, b \in Massives : a # b => preStep.pos[a] # preStep.pos[b]) =>
             (pos' = pos /\ vel' = vel)]_vars
    /\ [](( /\ spc = "sleep" /\ timestep.n = 0
            /\ \A a, b \in Massives : a # b => preStep.pos[a] # preStep.pos[b]) =>
             (pos = preStep.pos /\ vel = preStep.vel))

C23_Witness ==
    /\ days_per_millisecond = 0 /\ spc = "sleep" /\ lastWriter.pos = "sim"
    /\ Len(updated) = 2 /\ ci = 3
    /\ vel[1] # 0 /\ vel[2] # vel[1] /\ mass[1] # mass[2]

\* sum over the bodies of mass times velocity
RECURSIVE Momentum(_, _, _)
Momentum(m, v, bs) ==
    IF bs = {} THEN 0
    ELSE LET b == CHOOSE o \in bs : TRUE IN m[b] * v[b] + Momentum(m, v, bs \ {b})

\* C24: in a system of two movable bodies the total momentum after any
\* number of completed updates equals the momentum of the loaded system.
C24_MomentumConserved ==
    (Cardinality(Movables) = 2 /\ spc \in {"sleep", "burst", "check", "day_loop"}) =>
       Momentum(mass, vel, Movables) =
          Momentum([b \in DOMAIN config.toml.object |-> config.toml.object[b].mass.val],
                   [b \in DOMAIN config.toml.object |->
                       config.toml.object[b].orbital_velocity.val],
                   DOMAIN config.toml.object)

\* ---------------------------------------------------------------- C26
\* a step of the simulation thread between the call of update and its return
UpdateStep ==
    /\ spc \in {"update", "commit"}
    /\ <<spc, wpc, wloc, updated, ci, accumulator, pos, vel>>' #
       <<spc, wpc, wloc, updated, ci, accumulator, pos, vel>>

\* C26: an update step changes nothing but the positions and the velocities of
\* the bodies that have position, velocity and mass: the position of a body
\* without velocity, the masses, the trails, the set of bodies, the status and
\* the camera (view radius, rotation, follow target) are left as they were
C26_StepFrame ==
    [][UpdateStep =>
         /\ \A b \in Bodies \ Movables : pos'[b] = pos[b]
         /\ \A b \in Bodies : (pos'[b] # pos[b] \/ vel'[b] # vel[b]) => b \in Movables
         /\ mass' = mass
         /\ trail' = trail
         /\ DOMAIN pos' = DOMAIN pos /\ DOMAIN vel' = DOMAIN vel
         /\ status' = status
         /\ view_radius' = view_radius /\ rotation' = rotation /\ follow' = follow]_vars

\* an update has returned next to a trail the render thread has written
C26_Witness ==
    /\ spc = "sleep" /\ status = "running"
    /\ pos # preStep.pos /\ vel # preStep.vel
    /\ lastWriter.trail = "render"

\* ---------------------------------------------------------------- C27
\* the entries of the buffer that carry the result of body b
EntriesOf(b) == {k \in 1 .. Len(updated) : updated[k].entity = b}

\* C27: when the parallel phase of update is over the buffer holds exactly one
\* entry for every body with position, velocity and mass, and no other entry,
\* in whatever order the entries were appended; when update returns the commit
\* loop has written every entry once
C27_OneEntryPerMovable ==
    /\ spc \in {"commit", "sleep"} =>
         /\ \A b \in Movables : Cardinality(EntriesOf(b)) = 1
         /\ \A k \in 1 .. Len(updated) : updated[k].entity \in Movables
    /\ spc = "update" =>
         \A b \in Movables : Cardinality(EntriesOf(b)) = (IF wpc[b] = "done" THEN 1 ELSE 0)
    /\ spc = "sleep" =>
         /\ ci = Len(updated) + 1
         /\ \A k \in 1 .. Len(updated) :
              /\ pos[updated[k].entity] = updated[k].pos
              /\ vel[updated[k].entity] = updated[k].vel

\* update has returned after the second body appended its result first
C27_Witness ==
    /\ spc = "sleep"
    /\ Len(updated) = NBodies
    /\ updated[1].entity = 2 /\ updated[2].entity = 1
    /\ pos[1] = updated[2].pos /\ pos[1] # preStep.pos[1]

\* ---------------------------------------------------------------- C28
\* the lambda of update computed for one body from given positions and velocities
EulerRichardson(p, v, target) ==
    LET r0 == p[target]
        v0 == v[target]
        a0 == compute_acceleration(p, target, r0)
        v_mid == NAdd[v0, HalfStep[a0, timestep.n, timestep.d]]
        r_mid == NAdd[r0, HalfStep[v0, timestep.n, timestep.d]]
        a_mid == compute_acceleration(p, target, r_mid)
        r_fin == NAdd[r0, FullStep[v_mid, timestep.n, timestep.d]]
        v_fin == NAdd[v0, FullStep[a_mid, timestep.n, timestep.d]]
    IN  [pos |-> r_fin, vel |-> v_fin]

\* C28: the result of update is a function of the state before the step and of
\* dt: whatever the order in which the per-body computations run and append,
\* every entry of the buffer, and after the return every position and velocity,
\* is the Euler-Richardson step of that body from the pre-step state
C28_SchedulingIndependent ==
    /\ spc \in {"update", "commit"} =>
         \A k \in 1 .. Len(updated) :
            /\ updated[k].pos = EulerRichardson(preStep.pos, preStep.vel, updated[k].entity).pos
            /\ updated[k].vel = EulerRichardson(preStep.pos, preStep.vel, updated[k].entity).vel
    /\ spc = "sleep" =>
         \A b \in Movables :
            /\ pos[b] = EulerRichardson(preStep.pos, preStep.vel, b).pos
            /\ vel[b] = EulerRichardson(preStep.pos, preStep.vel, b).vel

\* a later update with dt > 0 has returned, the second body having appended first,
\* and has moved both bodies
C28_Witness ==
    /\ spc = "sleep"
    /\ timestep.n > 0
    /\ updated[1].entity = 2
    /\ preStep.vel # [b \in Entities |-> config.toml.object[b].orbital_velocity.val]
    /\ \A b \in Movables : pos[b] # preStep.pos[b] /\ vel[b] # preStep.vel[b]

\* ---------------------------------------------------------------- C29
\* C29: once status is stopped the simulation thread begins at most n_steps
\* further calls of update, the rest of the burst it is in, and no call is
\* counted while the status is not stopped
C29_BoundedStop ==
    /\ sinceStop <= n_steps
    /\ status # "stopped" => sinceStop = 0
    /\ (status = "stopped" /\ spc = "burst" /\ step = 0) => sinceStop = 0

\* the stop arrived right after a status check of a burst of several updates:
\* the whole burst has run and the thread has returned at the next check
C29_Witness ==
    /\ n_steps > 1
    /\ sinceStop = n_steps
    /\ spc = "returned"
    /\ day < last_day

\* ---------------------------------------------------------------- C30
\* one burst, n_steps * timestep = days_per_millisecond, in the unit of the accumulator
Burst == days_per_millisecond * n_steps

\* C30: when the dump labelled day k is emitted the simulated time is at least
\* (k - first_day) days and less than (k - first_day) days plus one burst, and
\* after the subtraction of 24 h at the start of a day iteration the
\* accumulator is at least 0 and less than one burst
C30_DayAlignment ==
    /\ [][dumps' # dumps =>
            LET k == dumps'[Len(dumps')]
            IN  /\ elapsed >= (k - first_day) * DayAcc
                /\ elapsed < (k - first_day) * DayAcc + Burst]_vars
    /\ [][(spc = "day_loop" /\ spc' = "check") =>
            (0 <= accumulator' /\ accumulator' < Burst)]_vars

\* ---------------------------------------------------------------- C31
\* C31: applying a batch of keys leaves the kind of the follow policy and, for
\* Target, the followed body as they were; a batch of arrow keys only changes
\* nothing but the offset of the active policy, to which it adds the
\* displacement rotated by the current rotation: view_radius and rotation are
\* left as they were
C31_ArrowKeysMoveOffset ==
    [][(rpc = "io_apply" /\ rpc' # rpc) =>
          /\ follow'.kind = follow.kind /\ follow'.id = follow.id
          /\ batch.changes = {"displacement"} =>
                /\ view_radius' = view_radius /\ rotation' = rotation
                /\ follow'.offset =
                      VAdd(follow.offset, ReversedRotate(rotation, batch.displacement))
                /\ pos' = pos /\ vel' = vel /\ trail' = trail
                /\ current_target' = current_target]_vars

\* a body was chosen and followed, then an arrow key has moved the camera
C31_Witness ==
    /\ follow.kind = "target" /\ follow.id = 2
    /\ follow.offset # ZeroVec
    /\ rpc = "trail_check" /\ inputs = 0

\* ---------------------------------------------------------------- C32
\* C32: the changes of a batch are made in one step taken under the exclusive
\* lock with no shared holder, in the order zoom, rotation, displacement: the
\* camera is as before the batch until that step and holds the whole batch
\* after it, and the displacement is rotated with the rotation that already
\* includes the rotation keys of the batch
C32_BatchAtomic ==
    /\ [](rpc = "io_apply" => (lockX = "render" /\ lockS = {}))
    /\ [][(rpc \in {"io_events", "io_lock"}) => camVars' = camVars]_vars
    /\ [][(rpc = "io_apply" /\ rpc' # rpc) =>
            /\ lockX' = "none" /\ batch' = NoBatch
            /\ "zoom" \in batch.changes =>
                  view_radius' = Clamp(view_radius + batch.delta_view_radius,
                                       min_max_view_radius[1], min_max_view_radius[2])
            /\ "rotation" \in batch.changes =>
                  /\ rotation'.z_axis = (rotation.z_axis + batch.rotation.z_axis) % 256
                  /\ rotation'.x_axis = (rotation.x_axis + batch.rotation.x_axis) % 256
            /\ "displacement" \in batch.changes =>
                  follow'.offset =
                     VAdd(follow.offset, ReversedRotate(rotation', batch.displacement))]_vars

\* one batch held a rotation key and an arrow key: the displacement was
\* rotated by the new rotation
C32_Witness ==
    /\ rpc = "trail_check" /\ inputs = 0
    /\ rotation = [z_axis |-> 1, x_axis |-> 0]
    /\ follow.offset = [v |-> <<0, 0, 0>>,
                        r |-> <<[z |-> 1, x |-> 0, d |-> <<-1, 0, 0>>]>>]

\* ---------------------------------------------------------------- C33
\* C33: with the counters of the context at 0 at startup, after any batches
\* of keys z_axis is (A - D) mod 256 and x_axis is (W - S) mod 256, where A,
\* D, W and S count the presses of a, d, w and s read so far (a batch that is
\* read and not yet applied counted in)
C33_RotationCounters ==
    /\ rotation.z_axis \in 0 .. 255 /\ rotation.x_axis \in 0 .. 255
    /\ (rotation.z_axis + batch.rotation.z_axis) % 256 = (pressed.a - pressed.d) % 256
    /\ (rotation.x_axis + batch.rotation.x_axis) % 256 = (pressed.w - pressed.s) % 256

\* d from 0 has wrapped the z counter to 255 and w has moved the x counter alone
C33_Witness ==
    /\ pressed = [a |-> 0, d |-> 1, w |-> 1, s |-> 0]
    /\ rotation = [z_axis |-> 255, x_axis |-> 1]
    /\ batch = NoBatch

\* ---------------------------------------------------------------- C34
\* C34: with the initial view_radius inside the bounds main sets (0 and the
\* larger of 1.01 times the largest distance of a body and the initial
\* view_radius), view_radius stays inside the bounds after any zoom keys
C34_ViewRadiusBounded ==
    /\ min_max_view_radius[1] <= view_radius
    /\ view_radius <= min_max_view_radius[2]
    /\ \E r \in ViewRadiusSet :
          min_max_view_radius = <<0, Max(LargestDistance(InitPos), r)>>

\* two presses of + have asked for a radius below the lower bound
C34_Witness ==
    /\ view_radius = min_max_view_radius[1]
    /\ view_radius < min_max_view_radius[2]
    /\ rpc = "trail_check" /\ inputs = 0

\* ---------------------------------------------------------------- C35
\* the position the file gives body b
ConfigPos(b) == build_vector(config.toml.object[b].distance, TRUE).value[1]

\* C35: a trail is created full, every slot holding the initial position of
\* its body; a sampling puts the current position in front of the entries it
\* finds, which keep their order, and drops the last one, so after k
\* samplings the first min(k, capacity) entries are the latest samples,
\* newest first
C35_TrailFifo ==
    /\ [](lastWriter.trail = "loader" =>
            \A b \in DOMAIN trail :
               /\ Len(trail[b]) = config.toml.object[b].motion_trail_length.val
                                     * config.toml.object[b].motion_trail_density.val
               /\ \A k \in 1 .. Len(trail[b]) : trail[b][k] = ConfigPos(b))
    /\ [][(rpc = "trail_write" /\ rpc' # rpc) =>
            \A b \in DOMAIN trail :
               /\ Len(trail'[b]) = Len(trail[b])
               /\ trail'[b][1] = pos[b]
               /\ \A k \in 2 .. Len(trail[b]) : trail'[b][k] = trail[b][k - 1]]_vars
    /\ [][(trail' # trail) => (rpc = "trail_write" /\ rpc' # rpc)]_vars

\* a trail of three slots after two samplings of different positions: the two
\* samples newest first, then the initial position, not yet evicted
C35_Witness ==
    /\ Len(trail[1]) = 3
    /\ trail[1][3] = ConfigPos(1)
    /\ trail[1][2] # ConfigPos(1) /\ trail[1][1] # trail[1][2]
    /\ trail[1][1] = pos[1]
    /\ rpc = "cam_lock"

\* ---------------------------------------------------------------- C36
\* C36: for every fps > 0 the render loop samples the trails once every
\* fps / 10 frames: the frame in which the counter reaches fps / 10 calls
\* update_trail, no earlier frame does, and the sampling resets the counter
C36_PeriodicSampling ==
    /\ [][(rpc = "trail_check" /\ rpc' # rpc) =>
            (rpc' = "trail_lock" <=> 10 * (count + 1) >= fps)]_vars
    /\ [][(rpc = "trail_write" /\ rpc' # rpc) => count' = 0]_vars
    /\ [](rpc = "trail_check" => 10 * count < fps)

\* ---------------------------------------------------------------- C37
\* the part of a frame in which display reads the registry and the trails
DisplayPcs == {"display", "display_entities"}

\* C37: while the render task is inside display no step of any task changes a
\* trail, and the step that writes the trails is a step of the render task
\* that ends outside display: the reads of a trail in display never overlap a
\* write of it
C37_TrailReadsApartFromWrites ==
    /\ [][(rpc \in DisplayPcs) => trail' = trail]_vars
    /\ [][(trail' # trail) => (rpc = "trail_write" /\ rpc' \notin DisplayPcs)]_vars
    /\ [](rpc = "trail_write" => shown = NoShown)

\* display has read the first body, whose trail was sampled before, while the
\* simulation thread is in the middle of a commit
C37_Witness ==
    /\ rpc = "display_entities" /\ Len(shown.pos) = 1
    /\ spc = "commit" /\ ci = 2
    /\ lastWriter.trail = "render" /\ trail # InitTrail

\* ---------------------------------------------------------------- C38
\* C38: in a frame of the camera window, a click on the CenterOfMass button
\* installs the center-of-mass policy with offset zero, also when that policy
\* is already active and has an offset; a click on the Target button installs
\* the target policy on the chosen entity with offset zero when an entity has
\* been chosen, and leaves follow as it is otherwise; choosing an entity in
\* the list installs the target policy on it with offset zero when the policy
\* at the start of the frame is target, and leaves follow as it is otherwise;
\* a frame without a click leaves follow as it is.
C38_SelectionResetsOffset ==
    [][(rpc = "cam_edit" /\ rpc' = "cam_drag") =>
          /\ widgets'.index = follow.kind /\ widgets'.replaced = follow
          /\ widgets'.click = "com" =>
                follow' = [kind |-> "com", id |-> 0, offset |-> ZeroVec]
          /\ (widgets'.click = "target" /\ current_target # 0) =>
                follow' = [kind |-> "target", id |-> current_target, offset |-> ZeroVec]
          /\ (widgets'.click = "target" /\ current_target = 0) => follow' = follow
          /\ (widgets'.sel # 0 /\ follow.kind = "target") =>
                follow' = [kind |-> "target", id |-> widgets'.sel, offset |-> ZeroVec]
          /\ (widgets'.sel # 0 /\ follow.kind # "target") => follow' = follow
          /\ (widgets'.click = "none" /\ widgets'.sel = 0) => follow' = follow]_vars

\* the CenterOfMass button clicked while the center-of-mass policy is active
\* and the arrow keys have given it an offset
C38_Witness ==
    /\ rpc = "cam_drag"
    /\ widgets.click = "com" /\ widgets.index = "com"
    /\ widgets.replaced.offset # ZeroVec
    /\ follow = [kind |-> "com", id |-> 0, offset |-> ZeroVec]

============================================================================
